---------------------------- MODULE Spec2Model ----------------------------
(***************************************************************************)
(* Model of src/interpolation_search.cpp: the function interpolationSearch *)
(* run one statement at a time, on the inputs main() hands it (sorted      *)
(* vectors of int and an int target; Spec) and on any vector (SpecAny).    *)
(*                                                                         *)
(* The position estimate of line 39 is computed as the code computes it:   *)
(* the two differences in 32-bit signed int, the quotient, the product and *)
(* the sum in IEEE-754 binary64 (round to nearest, ties to even), and the  *)
(* conversion back to int by truncation.  Binary64 values are held exactly *)
(* as a pair (bits, scale): a natural number written as a sequence of bits *)
(* with the least significant bit first, times 2^(-scale).                 *)
(***************************************************************************)
EXTENDS Integers, Sequences, FiniteSets

\* ------------------------------------------------------------------ bounds

\* Longest vector handed to the search (besides main's example).
MaxLen == 4

\* Longest vector of the runs that also take vectors that are not sorted.
MaxLenAny == 3

\* The small element values are 0..MaxVal.
MaxVal == 3

\* One far-away element value, which makes skewed vectors and quotients
\* such as 1/49 that binary64 cannot hold exactly.
BigGap == 49

\* ------------------------------------------------------- the type int

\* Largest value of the 32-bit signed int of the target build.
INT_MAX == 2147483647

INT_MIN == -INT_MAX - 1

\* Significand width of binary64 (double).
DBL_MANT_DIG == 53

\* x - y computed in int leaves the range of int (undefined behaviour).
\* Written so that the test itself never leaves the range.
SubOverflows(x, y) ==
    \/ y < 0 /\ x > INT_MAX + y
    \/ y > 0 /\ x < INT_MIN + y

\* ------------------------------------------------- binary64 arithmetic

RECURSIVE NatToBits(_)
\* A natural number as bits, least significant first (0 is <<>>).
NatToBits(n) == IF n = 0 THEN << >> ELSE <<n % 2>> \o NatToBits(n \div 2)

RECURSIVE BitLen(_)
\* Index of the highest 1 bit (0 for zero).
BitLen(B) == IF B = << >> THEN 0
             ELSE IF B[Len(B)] = 1 THEN Len(B)
             ELSE BitLen(SubSeq(B, 1, Len(B) - 1))

RECURSIVE BitsToNat(_)
\* The value of a bit sequence; used only on values below 2^31.
BitsToNat(B) == IF B = << >> THEN 0 ELSE Head(B) + 2 * BitsToNat(Tail(B))

\* Exact sums and products of naturals too wide for one machine word are
\* computed on limbs of LimbBits bits, as wide-integer libraries do.
LimbBits == 14

LimbBase == 2 ^ LimbBits

\* Bit i (1-based) of B, 0 beyond its end.
BitAt(B, i) == IF i \in 1..Len(B) THEN B[i] ELSE 0

\* Number of limbs that hold n bits.
LimbCount(n) == (n + LimbBits - 1) \div LimbBits

\* Limb k (1-based) of the natural held as bits B.
LimbAt(B, k) ==
    BitsToNat([j \in 1..LimbBits |-> BitAt(B, (k - 1) * LimbBits + j)])

\* The bits of a sequence of limbs, each below LimbBase.
LimbsToBits(limbs) ==
    [i \in 1..(Len(limbs) * LimbBits) |->
        (limbs[(i - 1) \div LimbBits + 1] \div 2 ^ ((i - 1) % LimbBits)) % 2]

RECURSIVE Carry(_, _, _)
\* Propagate carries through column sums, least significant column first.
Carry(cols, carry, acc) ==
    IF cols = << >>
    THEN (IF carry = 0 THEN acc ELSE Carry(<<carry>>, 0, acc))
    ELSE Carry(Tail(cols), (Head(cols) + carry) \div LimbBase,
               Append(acc, (Head(cols) + carry) % LimbBase))

\* Exact sum of two naturals held as bits.
AddBits(A, B) ==
    LimbsToBits(Carry([k \in 1..LimbCount(IF Len(A) > Len(B) THEN Len(A) ELSE Len(B))
                          |-> LimbAt(A, k) + LimbAt(B, k)], 0, << >>))

RECURSIVE Borrow(_, _, _)
\* Propagate borrows through column differences, least significant first.
Borrow(cols, borrow, acc) ==
    IF cols = << >> THEN acc
    ELSE Borrow(Tail(cols), IF Head(cols) - borrow < 0 THEN 1 ELSE 0,
                Append(acc, (Head(cols) - borrow + LimbBase) % LimbBase))

\* Exact difference A - B of two naturals held as bits, A >= B.
SubBits(A, B) ==
    LimbsToBits(Borrow([k \in 1..LimbCount(Len(A)) |-> LimbAt(A, k) - LimbAt(B, k)],
                       0, << >>))

\* Exact product of a natural held as bits and an int magnitude held as
\* bits (at most 2^31: three limbs): column k sums the limb products of
\* weight k.
MulBits(A, C) ==
    LimbsToBits(Carry([k \in 1..(LimbCount(Len(A)) + 3) |->
                          LimbAt(A, k) * LimbAt(C, 1) + LimbAt(A, k - 1) * LimbAt(C, 2)
                                                      + LimbAt(A, k - 2) * LimbAt(C, 3)],
                      0, << >>))

\* A natural held as bits, plus one.
Increment(B) ==
    LET zeros == {i \in 1..Len(B) : B[i] = 0}
        j     == IF zeros = {} THEN Len(B) + 1
                 ELSE CHOOSE i \in zeros : \A k \in zeros : i <= k
    IN  [i \in 1..(IF j > Len(B) THEN j ELSE Len(B)) |->
            IF i < j THEN 0 ELSE IF i = j THEN 1 ELSE B[i]]

\* Some bit of B below index d (1-based, exclusive) is set.
Sticky(B, d) == \E i \in 1..(d - 1) : B[i] = 1

\* Round the exact value bits * 2^(-scale) to binary64: keep the top
\* DBL_MANT_DIG significant bits, round to nearest, ties to even.
RoundNearestEven(B, scale) ==
    LET L == BitLen(B)
        d == L - DBL_MANT_DIG
    IN  IF d <= 0 THEN [bits |-> SubSeq(B, 1, L), scale |-> scale]
        ELSE LET kept == SubSeq(B, d + 1, L)
                 up   == B[d] = 1 /\ (Sticky(B, d) \/ kept[1] = 1)
             IN  [bits  |-> IF up THEN Increment(kept) ELSE kept,
                  scale |-> scale - d]

\* One step of long division on the state d = [r, need, started, digits]:
\* the next quotient digit of r/b after the binary point is put in front of
\* digits (least significant first); need counts the significant digits
\* still wanted, started tells whether a 1 has been produced.  2r >= b is
\* tested as r >= b - r, which stays inside the range of the model
\* checker's (TLC's) integers for every b up to INT_MAX.
DivStep(d, b) ==
    IF d.r >= b - d.r
    THEN [r |-> d.r - (b - d.r), need |-> d.need - 1, started |-> TRUE,
          digits |-> <<1>> \o d.digits]
    ELSE [r |-> d.r + d.r, need |-> IF d.started THEN d.need - 1 ELSE d.need,
          started |-> d.started, digits |-> <<0>> \o d.digits]

RECURSIVE DivSteps(_, _, _)
\* At most n steps of long division, stopping when no digit is wanted.
DivSteps(d, b, n) ==
    IF n = 0 \/ d.need <= 0 THEN d ELSE DivSteps(DivStep(d, b), b, n - 1)

RECURSIVE DivDigits(_, _)
\* Long division until no digit is wanted, eight steps at a time.
DivDigits(d, b) ==
    IF d.need <= 0 THEN d ELSE DivDigits(DivSteps(d, b, 8), b)

\* The quotient digits with a last digit that tells whether the remainder
\* is non-zero, and the number of digits after the binary point.
WithSticky(frac, whole) ==
    RoundNearestEven(<<IF frac.r = 0 THEN 0 ELSE 1>> \o frac.digits \o whole,
                     Len(frac.digits) + 1)

\* The magnitude of an int as a natural TLC's integers can hold,
\* and the power of two it was scaled down by: |INT_MIN| = 2^31 is taken
\* as 2^30 times 2^1.
Mag(x) == IF x = INT_MIN THEN 2 ^ 30 ELSE IF x < 0 THEN -x ELSE x

MagExp(x) == IF x = INT_MIN THEN 1 ELSE 0

\* The magnitude of an int as bits.
MagBits(x) == [i \in 1..MagExp(x) |-> 0] \o NatToBits(Mag(x))

Zero == [bits |-> << >>, scale |-> 0]

\* |(double)a / b| for ints a and b # 0: both conversions are exact, the
\* quotient is rounded once.  One digit more than the significand and a
\* sticky digit for the remainder decide the rounding; a power of two
\* taken out of a or b only moves the binary point.
DoubleDiv(a, b) ==
    IF a = 0 THEN Zero
    ELSE LET whole == NatToBits(Mag(a) \div Mag(b))
             q     == WithSticky(DivDigits([r |-> Mag(a) % Mag(b),
                                  need |-> DBL_MANT_DIG + 1 - Len(whole),
                                  started |-> whole # << >>,
                                  digits |-> << >>], Mag(b)),
                                 whole)
         IN  [bits |-> q.bits, scale |-> q.scale - MagExp(a) + MagExp(b)]

\* |x * c| for a binary64 magnitude x and an int c (converted exactly).
DoubleMul(x, c) == RoundNearestEven(MulBits(x.bits, MagBits(c)), x.scale)

Sign(x) == IF x < 0 THEN -1 ELSE 1

\* A >= B for naturals held as bits.
GeBits(A, B) ==
    LET diff == {i \in 1..(IF Len(A) > Len(B) THEN Len(A) ELSE Len(B)) :
                    BitAt(A, i) # BitAt(B, i)}
    IN  diff = {} \/ BitAt(A, CHOOSE i \in diff : \A k \in diff : k <= i) = 1

\* l + s*y for an int l (converted exactly), a sign s and a binary64
\* magnitude y with y.scale >= 0: the exact sum, rounded once, as a sign and
\* a magnitude.
DoubleAddInt(l, s, y) ==
    LET L == [i \in 1..y.scale |-> 0] \o MagBits(l)
    IN  IF BitLen(y.bits) = 0 \/ l = 0 \/ Sign(l) = s
        THEN [sign |-> IF l = 0 THEN s ELSE Sign(l),
              mag  |-> RoundNearestEven(AddBits(L, y.bits), y.scale)]
        ELSE IF GeBits(L, y.bits)
        THEN [sign |-> Sign(l),
              mag  |-> RoundNearestEven(SubBits(L, y.bits), y.scale)]
        ELSE [sign |-> s,
              mag  |-> RoundNearestEven(SubBits(y.bits, L), y.scale)]

\* The whole part of a binary64 magnitude with scale >= 0, as bits.
WholeBits(z) == SubSeq(z.bits, z.scale + 1, BitLen(z.bits))

\* Outcomes of an operation whose behaviour C++ leaves undefined and whose
\* result lands in an int: any int may come out.  The model keeps the two
\* extremes and every value around the indices of the vector.
UBInts == {INT_MIN, INT_MAX} \cup (-2..(MaxLen + 2))

\* The conversion double -> int of `int pos = ...`: truncation toward zero;
\* undefined when the truncated value is not an int.
DoubleToInt(z) ==
    IF z.mag.scale < 0 THEN UBInts
    ELSE IF BitLen(WholeBits(z.mag)) <= 31
    THEN {z.sign * BitsToNat(WholeBits(z.mag))}
    ELSE IF z.sign = -1 /\ WholeBits(z.mag) = MagBits(INT_MIN) THEN {INT_MIN}
    ELSE UBInts

\* ------------------------------------------------------------ the inputs

\* Element and target values: the two ends of int, the small values and
\* the far-away one.
Vals == {INT_MIN, INT_MAX, BigGap} \cup (0..MaxVal)

\* sort() of line 80 and the literal of line 136 hand over vectors that
\* are non-decreasing.
IsSorted(s) == \A i \in 1..(Len(s) - 1) : s[i] <= s[i + 1]

SortedVectors ==
    {s \in UNION {[1..n -> Vals] : n \in 0..MaxLen} : IsSorted(s)}

\* Every vector, sorted or not: what a caller may hand to the function.
AnyVectors == UNION {[1..n -> Vals] : n \in 0..MaxLenAny}

\* The example search of main().
ExampleArr == <<10, 20, 30, 40, 50>>

ExampleTarget == 40

\* --------------------------------------------------------------- the state

VARIABLES
    arr,      \* the vector searched (0-based in the code, 1-based here)
    target,   \* the value searched for
    low,      \* lower bound of the range still searched
    high,     \* upper bound of the range still searched
    pos,      \* the probe position, before and after the clamp
    pc,       \* the statement interpolationSearch is at
    result,   \* << >> until the function returns, then <<value returned>>
    iters,    \* times the loop body was entered
    probes,   \* times a probe position was computed
    reads     \* the indices at which arr was read so far

vars == <<arr, target, low, high, pos, pc, result, iters, probes, reads>>

\* arr.size()
Size == Len(arr)

\* The indices of the vector.
Indices == 0..(Size - 1)

\* arr[i]; g is what a read outside the vector yields.
At(i, g) == IF i \in Indices THEN arr[i + 1] ELSE g

\* What reads at the indices idx may yield where they fall outside the
\* vector (undefined behaviour: any value).
Garbage(idx) == IF idx \subseteq Indices THEN {0} ELSE Vals

\* int high = arr.size() - 1: size() - 1 is computed in size_t, where 0 - 1
\* wraps to the all-ones value, and narrowing that to int gives -1.
InitHigh(n) == IF n = 0 THEN -1 ELSE n - 1

\* Faulty variant: the upper test of the loop condition made strict.
LoopConditionStrictUpper(g) ==
    low <= high /\ target >= At(low, g) /\ target < At(high, g)

\* Faulty variant: the upper test of the loop condition left out.
LoopConditionNoUpper(g) ==
    low <= high /\ target >= At(low, g)

\* The condition of the while loop, evaluated left to right.
LoopCondition(g) ==
    low <= high /\ target >= At(low, g) /\ target <= At(high, g)

\* The indices the loop condition reads: && stops at the first false operand.
ConditionReads(g) ==
    IF ~(low <= high) THEN {}
    ELSE IF ~(target >= At(low, g)) THEN {low}
    ELSE {low, high}

\* Faulty variant: the degenerate range is not detected.
IsDegenerateNever(g) == FALSE

\* arr[high] == arr[low]
IsDegenerate(g) == At(high, g) = At(low, g)

\* (arr[low] == target) ? low : -1
DegenerateResult(g) == IF At(low, g) = target THEN low ELSE -1

\* Faulty variant: the probe is always the lower bound (a linear scan).
InterpolateLow(lo, hi, slo, shi, t) == {lo}

\* low + (((double)(high - low) / (arr[high] - arr[low])) * (target - arr[low]))
\* converted to int: the values pos may get from the estimate of line 39,
\* for bounds lo, hi and elements slo = arr[low], shi = arr[high].  The
\* three differences are int subtractions, undefined on overflow; a zero
\* divisor makes the quotient an infinity or a NaN, whose conversion to int
\* is undefined.
Interpolate(lo, hi, slo, shi, t) ==
    IF SubOverflows(hi, lo) \/ SubOverflows(shi, slo) \/ SubOverflows(t, slo)
    THEN UBInts
    ELSE IF shi - slo = 0 THEN UBInts
    ELSE DoubleToInt(DoubleAddInt(lo,
             Sign(hi - lo) * Sign(shi - slo) * Sign(t - slo),
             DoubleMul(DoubleDiv(hi - lo, shi - slo), t - slo)))

\* Faulty variant: the estimate is not clamped.
clampNone(v, lo, hi) == v

\* std::clamp(v, lo, hi)
clamp(v, lo, hi) == IF v < lo THEN lo ELSE IF hi < v THEN hi ELSE v

\* Faulty variant: == typed as >=.
ProbeAtLeast(g) == At(pos, g) >= target

\* arr[pos] == target
ProbeEquals(g) == At(pos, g) = target

\* arr[pos] < target
ProbeLess(g) == At(pos, g) < target

\* Faulty variant: low = pos, the probed index is kept in the range.
SearchUpperLowKeep(p) == p

\* low = pos + 1
SearchUpperLow(p) == p + 1

\* Faulty variant: high = pos - 2, one index too many is dropped.
SearchLowerHighSkip(p) == p - 2

\* high = pos - 1
SearchLowerHigh(p) == p - 1

\* ------------------------------------------------------------- the actions

\* Lines 24 and 26 set the bounds.
Entry ==
    /\ low = 0
    /\ high = InitHigh(Len(arr))
    /\ pos = 0
    /\ pc = "while"
    /\ result = << >>
    /\ iters = 0
    /\ probes = 0
    /\ reads = {}

\* main() calls interpolationSearch on its example, testPerformance() on a
\* sorted vector and a target.
Init ==
    /\ \/ arr \in SortedVectors /\ target \in Vals
       \/ arr = ExampleArr /\ target = ExampleTarget
    /\ Entry

\* A call of the function on any vector at all.
InitAny ==
    /\ arr \in AnyVectors
    /\ target \in Vals
    /\ Entry

\* Line 30, condition true: the loop body is entered.
EnterLoop ==
    /\ pc = "while"
    /\ \E g \in Garbage(IF low <= high THEN {low, high} ELSE {}) :
          /\ LoopCondition(g)
          /\ reads' = reads \cup ConditionReads(g)
    /\ pc' = "body"
    /\ iters' = iters + 1
    /\ UNCHANGED <<arr, target, low, high, pos, result, probes>>

\* Line 30, condition false, and line 54: return -1.
ReturnNotFound ==
    /\ pc = "while"
    /\ \E g \in Garbage(IF low <= high THEN {low, high} ELSE {}) :
          /\ ~LoopCondition(g)
          /\ reads' = reads \cup ConditionReads(g)
    /\ result' = <<-1>>
    /\ pc' = "done"
    /\ UNCHANGED <<arr, target, low, high, pos, iters, probes>>

\* Lines 33-36: the elements at both bounds are equal.
ReturnDegenerate ==
    /\ pc = "body"
    /\ \E g \in Garbage({low, high}) :
          /\ IsDegenerate(g)
          /\ result' = <<DegenerateResult(g)>>
    /\ reads' = reads \cup {low, high}
    /\ pc' = "done"
    /\ UNCHANGED <<arr, target, low, high, pos, iters, probes>>

\* Line 39: the probe position is estimated.
Estimate ==
    /\ pc = "body"
    /\ \E g \in Garbage({low, high}) :
          /\ ~IsDegenerate(g)
          /\ pos' \in Interpolate(low, high, At(low, g), At(high, g), target)
    /\ reads' = reads \cup {low, high}
    /\ probes' = probes + 1
    /\ pc' = "clamp"
    /\ UNCHANGED <<arr, target, low, high, result, iters>>

\* Line 41: the estimate is clamped into [low, high].
Clamp ==
    /\ pc = "clamp"
    /\ pos' = clamp(pos, low, high)
    /\ pc' = "compare"
    /\ UNCHANGED <<arr, target, low, high, result, iters, probes, reads>>

\* Lines 44-45: the probed element is the target.
ReturnFound ==
    /\ pc = "compare"
    /\ \E g \in Garbage({pos}) : ProbeEquals(g)
    /\ result' = <<pos>>
    /\ reads' = reads \cup {pos}
    /\ pc' = "done"
    /\ UNCHANGED <<arr, target, low, high, pos, iters, probes>>

\* Lines 47-48: the probed element is smaller; search the upper part.
SearchUpper ==
    /\ pc = "compare"
    /\ \E g \in Garbage({pos}) : ~ProbeEquals(g) /\ ProbeLess(g)
    /\ low' = SearchUpperLow(pos)
    /\ reads' = reads \cup {pos}
    /\ pc' = "while"
    /\ UNCHANGED <<arr, target, high, pos, result, iters, probes>>

\* Lines 50-51: the probed element is greater; search the lower part.
SearchLower ==
    /\ pc = "compare"
    /\ \E g \in Garbage({pos}) : ~ProbeEquals(g) /\ ~ProbeLess(g)
    /\ high' = SearchLowerHigh(pos)
    /\ reads' = reads \cup {pos}
    /\ pc' = "while"
    /\ UNCHANGED <<arr, target, low, pos, result, iters, probes>>

Next ==
    \/ EnterLoop
    \/ ReturnNotFound
    \/ ReturnDegenerate
    \/ Estimate
    \/ Clamp
    \/ ReturnFound
    \/ SearchUpper
    \/ SearchLower

Spec == Init /\ [][Next]_vars

SpecAny == InitAny /\ [][Next]_vars

\* ------------------------------------------------------------ the claims

\* The function has returned.
Returned == pc = "done"

\* The vector holds no negative element, so that no int subtraction of the
\* estimate overflows: the run is one of defined behaviour only.
Defined == Size >= 1 /\ \A i \in 1..Size : arr[i] >= 0

\* The indices at which the target occurs.
Matches == {i \in Indices : arr[i + 1] = target}

\* C1: when the target occurs in the sorted vector, the value returned is an
\* index of the vector whose element is the target (never -1, never an index
\* of another element); main's example search returns 3.
C1_PresentIsFound ==
    /\ (Returned /\ Matches # {}) => result[1] \in Matches
    /\ (Returned /\ arr = ExampleArr /\ target = ExampleTarget) => result = <<3>>

\* A present target found after two narrowings of the range.
C1_Witness ==
    Returned /\ Defined /\ Matches # {} /\ iters >= 3 /\ result[1] \in Matches

\* C2: when the target does not occur in the sorted vector (empty vector,
\* target below the first element, above the last, or between two
\* elements), the value returned is -1.
C2_AbsentIsNotFound ==
    (Returned /\ Matches = {}) => result = <<-1>>

\* An absent target strictly between two elements, given up after a probe.
C2_Witness ==
    /\ Returned /\ Defined /\ Matches = {} /\ Size >= 2 /\ probes >= 1
    /\ arr[1] < target /\ target < arr[Size]
    /\ result = <<-1>>

\* C3: the search terminates: every iteration that does not return makes
\* high - low strictly smaller, and the loop body is entered at most n times.
C3_Terminates ==
    /\ [][(pc = "compare" /\ pc' = "while") => high' - low' < high - low]_vars
    /\ [](iters <= Size)

\* A search that has narrowed the range twice and returned.
C3_Witness == Returned /\ Defined /\ iters >= 3 /\ Size >= 3

\* C4: on a non-empty sorted vector, a target below the first or above the
\* last element gives -1 without probing: the loop body is never entered
\* and no probe position is computed.
C4_OutsideRangeNoProbe ==
    (Size >= 1 /\ (target < arr[1] \/ target > arr[Size])) =>
        /\ iters = 0
        /\ probes = 0
        /\ pc \in {"while", "done"}
        /\ Returned => result = <<-1>>

\* A target above the last element of a vector of several elements.
C4_Witness ==
    Returned /\ Size >= 2 /\ target > arr[Size] /\ result = <<-1>> /\ iters = 0

\* C5: with a target that occurs several times the index returned is a
\* match that need be neither the first nor the last one: on <<0, 2, 2, 3>>
\* the search for 2 returns index 2 although index 1 matches, and on
\* <<3, 3, 3, 3>> the search for 3 returns index 0 although index 1 matches.
C5_DuplicatesAnyMatch ==
    /\ (Returned /\ arr = <<0, 2, 2, 3>> /\ target = 2) =>
           (result = <<2>> /\ arr[result[1]] = target)
    /\ (Returned /\ arr = <<3, 3, 3, 3>> /\ target = 3) =>
           (result = <<0>> /\ arr[result[1] + 2] = target)

\* A match is returned whose left neighbour matches too.
C5_Witness ==
    /\ Returned /\ Defined /\ Cardinality(Matches) >= 2
    /\ result[1] \in Matches /\ result[1] - 1 \in Matches

\* C6: the estimate is never computed with a zero divisor: when line 39 has
\* run, arr[high] > arr[low]; an iteration that finds arr[high] = arr[low]
\* returns low if arr[low] is the target and -1 otherwise, without an
\* estimate (it is the one way to return with iters = probes + 1).
C6_NoZeroDivisor ==
    /\ pc = "clamp" => arr[high + 1] > arr[low + 1]
    /\ (Returned /\ iters = probes + 1) =>
          /\ arr[high + 1] = arr[low + 1]
          /\ result = <<IF arr[low + 1] = target THEN low ELSE -1>>

\* A degenerate range met after a probe has narrowed the range.
C6_Witness == Returned /\ Defined /\ iters = probes + 1 /\ probes >= 1

RECURSIVE MulDiv(_, _, _)
\* <<floor(a*c/b), (a*c) % b>> for 0 <= c <= b, b >= 1, a >= 0, by adding c
\* a times; no intermediate value exceeds b.
MulDiv(a, c, b) ==
    IF a = 0 THEN <<0, 0>>
    ELSE LET qr == MulDiv(a - 1, c, b)
         IN  IF qr[2] >= b - c THEN <<qr[1] + 1, qr[2] - (b - c)>>
             ELSE <<qr[1], qr[2] + c>>

\* C7 (as claimed): whenever the estimate has been computed, the two
\* differences arr[high] - arr[low] and target - arr[low] were representable
\* in int and pos is low + floor((high-low)*(target-arr[low])/(arr[high]-arr[low])).
C7_NoOverflowExactEstimate ==
    pc = "clamp" =>
        /\ ~SubOverflows(arr[high + 1], arr[low + 1])
        /\ ~SubOverflows(target, arr[low + 1])
        /\ pos = low + MulDiv(high - low, target - arr[low + 1],
                              arr[high + 1] - arr[low + 1])[1]

\* C8: on every vector, sorted or not, every read of arr is inside the
\* vector; after the clamp low <= pos <= high; an empty vector starts with
\* high = -1 and is never read.
C8_ReadsInBounds ==
    /\ reads \subseteq Indices
    /\ pc = "compare" => (low <= pos /\ pos <= high)
    /\ Size = 0 => (high = -1 /\ reads = {})

\* A search of a vector that is not sorted, which read it at three indices.
C8_Witness ==
    Returned /\ Defined /\ ~IsSorted(arr) /\ probes >= 1 /\ Cardinality(reads) >= 3

\* C9: at every evaluation of the loop condition 0 <= low <= n,
\* -1 <= high <= n-1, and every index that holds the target lies in
\* [low, high].
C9_LoopInvariant ==
    pc = "while" =>
        /\ 0 <= low /\ low <= Size
        /\ -1 <= high /\ high <= Size - 1
        /\ \A i \in Matches : low <= i /\ i <= high

\* The loop condition is evaluated after the range was narrowed around an
\* occurrence of the target.
C9_Witness ==
    /\ pc = "while" /\ Defined /\ iters >= 2 /\ Matches # {}
    /\ (low > 0 \/ high < Size - 1)

\* C10 (as claimed): the clamp never changes pos: the estimate that line 39
\* leaves in pos already lies in [low, high].
C10_ClampIsNoOp ==
    pc = "clamp" => clamp(pos, low, high) = pos

=============================================================================
